---- MODULE Spec2Model ----
(***************************************************************************)
(* Model of the two stock collectors of this repository:                   *)
(*   src/teste-1.py  YahooFinanceScraper   (markup source, "yahoo")        *)
(*   src/teste-2.py  AlphaVantageCollector (API source,    "api")          *)
(* Both run fetch -> parse -> collect -> pause per symbol, then main()     *)
(* writes the collected records once.                                      *)
(*                                                                         *)
(* Texts are sequences of string tokens (a token stands for a run of       *)
(* characters).  An Optional value is a sequence of length 0 (None) or 1.  *)
(* Environment assumption: the body of a status-200 API response is either *)
(* a JSON object or not decodable as JSON at all.                          *)
(***************************************************************************)
EXTENDS Integers, Sequences, FiniteSets, TLC

VARIABLES source, symbols, i, pc, raw, data, overview_data, all_data, clock,
          log, outcome, files, printed

vars == <<source, symbols, i, pc, raw, data, overview_data, all_data, clock,
          log, outcome, files, printed>>

\* ------------------------------------------------------------------ bounds
MaxLen == 2
TicksPerSecond == 2
MaxClock == 3
MaxSaves == 3

\* ------------------------------------------------------ program constants
MinDelay == 1
MaxDelay == 3
ApiDelay == 12
StatusOK == 200
StatusNotFound == 404

\* ------------------------------------------------------------- basic data
None == << >>
Some(x) == <<x>>
IsNone(o) == Len(o) = 0
NA == <<"N/A">>

Sources == {"yahoo", "api"}
Symbols == {<<"AAPL">>, <<"BADSYM">>}

Keys == {"symbol", "name", "price", "change", "change_percent", "volume",
         "market_cap", "pe_ratio", "collection_date", "source"}
ExtractedFields == {"name", "price", "change", "change_percent", "volume",
                    "market_cap", "pe_ratio"}
SentinelFields == ExtractedFields \ {"name"}

\* a function returns normally with a value, or an exception leaves it
Return(v) == [raised |-> FALSE, val |-> v]
Raise == [raised |-> TRUE, val |-> None]

\* datetime.now().strftime(...): both formats used by the code stop at the
\* second, so every instant of one second formats to the same text
strftime(t) == <<"T", ToString(t \div TicksPerSecond)>>

RequestExceptions == {"Timeout", "ConnectionError"}

\* ------------------------------------------------- markup source: texts
RECURSIVE BeforeParen(_)
BeforeParen(t) ==
    IF t = << >> \/ Head(t) = "(" THEN << >>
    ELSE <<Head(t)>> \o BeforeParen(Tail(t))

RECURSIVE LStrip(_)
LStrip(t) == IF t # << >> /\ Head(t) = " " THEN LStrip(Tail(t)) ELSE t

RECURSIVE RStrip(_)
RStrip(t) ==
    IF t # << >> /\ t[Len(t)] = " " THEN RStrip(SubSeq(t, 1, Len(t) - 1))
    ELSE t

Strip(t) == RStrip(LStrip(t))

H1Full == <<"Apple Inc.", " ", "(", "AAPL", ")">>
H1Bare == <<"(", "AAPL", ")">>
Value == <<"189.50">>

NoElems == [f \in ExtractedFields |-> None]
EmptyText == [kind |-> "empty", elems |-> NoElems]
RejectedMarkup == [kind |-> "rejected", elems |-> NoElems]
Page(e) == [kind |-> "html", elems |-> e]

ElemChoices(f) ==
    IF f = "name" THEN {None, Some(H1Full), Some(H1Bare)}
    ELSE {None, Some(Value), Some(NA)}

AllElems == {e \in [ExtractedFields -> {None, Some(H1Full), Some(H1Bare),
                                        Some(Value), Some(NA)}] :
                \A f \in ExtractedFields : e[f] \in ElemChoices(f)}

FullElems == [f \in ExtractedFields |->
                 IF f = "name" THEN Some(H1Full) ELSE Some(Value)]
OnlyElems(S) == [f \in ExtractedFields |->
                    IF f \in S THEN FullElems[f] ELSE None]

YahooResponse(e, s, b) == [exc |-> e, status |-> s, text |-> b]

YahooFailures ==
    {YahooResponse(e, StatusOK, EmptyText) : e \in RequestExceptions}
    \cup {YahooResponse("none", StatusNotFound, EmptyText)}

\* responses of a multi-symbol run
YahooResponses ==
    YahooFailures
    \cup {YahooResponse("none", StatusOK, b) :
            b \in {EmptyText, RejectedMarkup, Page(NoElems), Page(FullElems),
                   Page(OnlyElems({"price", "pe_ratio"}))}}

\* responses of a single-symbol run: every combination of located elements
YahooResponsesAll ==
    YahooFailures
    \cup {YahooResponse("none", StatusOK, b) :
            b \in {EmptyText, RejectedMarkup} \cup {Page(e) : e \in AllElems}}

\* variant: the request's exception is not caught
fetch_page_nocatch(resp) ==
    IF resp.exc \in RequestExceptions THEN Raise
    ELSE IF resp.status = StatusOK THEN Return(Some(resp.text))
    ELSE Return(None)

\* teste-1.py _fetch_page
fetch_page(resp) ==
    IF resp.exc \in RequestExceptions THEN Return(None)
    ELSE IF resp.status = StatusOK THEN Return(Some(resp.text))
    ELSE Return(None)

\* soup.find(...).text if found, else the default
TextOr(elems, f, default) ==
    IF IsNone(elems[f]) THEN default ELSE elems[f][1]

\* variant: once the price element is missing the later quote fields are not
\* looked up
parse_data_chained(html, symbol, now) ==
    IF html.kind = "rejected" THEN None
    ELSE Some([symbol |-> symbol,
               name |-> IF IsNone(html.elems["name"]) THEN symbol
                        ELSE Strip(BeforeParen(html.elems["name"][1])),
               price |-> TextOr(html.elems, "price", NA),
               change |-> IF IsNone(html.elems["price"]) THEN NA
                          ELSE TextOr(html.elems, "change", NA),
               change_percent |-> TextOr(html.elems, "change_percent", NA),
               volume |-> TextOr(html.elems, "volume", NA),
               market_cap |-> TextOr(html.elems, "market_cap", NA),
               pe_ratio |-> TextOr(html.elems, "pe_ratio", NA),
               collection_date |-> strftime(now),
               source |-> <<"Yahoo Finance (Web Scraping)">>])

\* teste-1.py _parse_data
parse_data(html, symbol, now) ==
    IF html.kind = "rejected" THEN None
    ELSE Some([symbol |-> symbol,
               name |-> IF IsNone(html.elems["name"]) THEN symbol
                        ELSE Strip(BeforeParen(html.elems["name"][1])),
               price |-> TextOr(html.elems, "price", NA),
               change |-> TextOr(html.elems, "change", NA),
               change_percent |-> TextOr(html.elems, "change_percent", NA),
               volume |-> TextOr(html.elems, "volume", NA),
               market_cap |-> TextOr(html.elems, "market_cap", NA),
               pe_ratio |-> TextOr(html.elems, "pe_ratio", NA),
               collection_date |-> strftime(now),
               source |-> <<"Yahoo Finance (Web Scraping)">>])

\* Python truth value of the fetched text ("" is false)
TruthyText(o) == ~IsNone(o) /\ o[1].kind # "empty"

\* --------------------------------------------------- API source: JSON data
QuoteKeys == {"05. price", "09. change", "10. change percent", "06. volume"}
OverviewKeys == {"Symbol", "Name", "MarketCapitalization", "PERatio"}
CompanyName == <<"Apple Inc">>
Message == <<"rate limit">>

EmptyObject == << >>
Dict(items) == [isdict |-> TRUE, items |-> items]
NotADict == [isdict |-> FALSE, items |-> << >>]

AllQuoteItems == UNION {[S -> {Value, NA}] : S \in SUBSET QuoteKeys}
FullQuoteItems == [k \in QuoteKeys |-> Value]

OverviewValues(k) ==
    IF k = "Symbol" THEN {<<"AAPL">>}
    ELSE IF k = "Name" THEN {CompanyName, NA}
    ELSE {Value, NA}
AllOverviews ==
    UNION {{d \in [S -> {<<"AAPL">>, CompanyName, Value, NA}] :
              \A k \in S : d[k] \in OverviewValues(k)} :
           S \in SUBSET OverviewKeys}
FullOverview == [k \in OverviewKeys |->
                    IF k = "Symbol" THEN <<"AAPL">>
                    ELSE IF k = "Name" THEN CompanyName ELSE Value]

ApiResponse(e, s, j) == [exc |-> e, status |-> s, json |-> j]

ApiFailures ==
    {ApiResponse(e, StatusOK, None) : e \in RequestExceptions}
    \cup {ApiResponse("none", StatusNotFound, None),
          ApiResponse("none", StatusOK, None),
          ApiResponse("none", StatusOK, Some(EmptyObject)),
          ApiResponse("none", StatusOK, Some("Error Message" :> Message)),
          ApiResponse("none", StatusOK, Some("Information" :> Message))}

QuoteResponses ==
    ApiFailures
    \cup {ApiResponse("none", StatusOK, Some(d)) :
            d \in {"Global Quote" :> Dict(FullQuoteItems),
                   "Global Quote" :> Dict("05. price" :> Value),
                   "Global Quote" :> Dict(EmptyObject),
                   "Global Quote" :> NotADict,
                   FullOverview}}

QuoteResponsesAll ==
    ApiFailures
    \cup {ApiResponse("none", StatusOK, Some("Global Quote" :> Dict(q))) :
            q \in AllQuoteItems}
    \cup {ApiResponse("none", StatusOK, Some(d)) :
            d \in {"Global Quote" :> NotADict, FullOverview}}

OverviewResponses ==
    ApiFailures
    \cup {ApiResponse("none", StatusOK, Some(d)) :
            d \in {FullOverview,
                   "Symbol" :> <<"AAPL">>,
                   "Name" :> CompanyName,
                   ("Symbol" :> <<"AAPL">>) @@ ("PERatio" :> Value)}}

OverviewResponsesAll ==
    ApiFailures
    \cup {ApiResponse("none", StatusOK, Some(d)) :
            d \in AllOverviews \ {EmptyObject}}

\* teste-2.py _make_request; response.json() on an undecodable body raises
\* requests.exceptions.JSONDecodeError, a RequestException
make_request(resp) ==
    IF resp.exc \in RequestExceptions THEN Return(None)
    ELSE IF resp.status = StatusOK THEN
        IF IsNone(resp.json) THEN Return(None)
        ELSE IF "Error Message" \in DOMAIN resp.json[1] THEN Return(None)
        ELSE IF "Information" \in DOMAIN resp.json[1] THEN Return(None)
        ELSE Return(Some(resp.json[1]))
    ELSE Return(None)

\* dict.get(key, default)
Get(d, k, default) == IF k \in DOMAIN d THEN d[k] ELSE default

\* Python truth value of an Optional[Dict] (None and {} are false)
TruthyDict(o) == ~IsNone(o) /\ DOMAIN o[1] # {}

\* variant: the two fields this API function lacks are left out of the record
parse_quote_data_short(d, symbol, now) ==
    IF "Global Quote" \notin DOMAIN d THEN None
    ELSE IF ~d["Global Quote"].isdict THEN None
    ELSE LET quote == d["Global Quote"].items IN
         Some([symbol |-> symbol,
               name |-> symbol,
               price |-> Get(quote, "05. price", NA),
               change |-> Get(quote, "09. change", NA),
               change_percent |-> Get(quote, "10. change percent", NA),
               volume |-> Get(quote, "06. volume", NA),
               collection_date |-> strftime(now),
               source |-> <<"Alpha Vantage API">>])

\* teste-2.py _parse_quote_data; .get on a value that is not a dict raises
\* and the except clause returns None
parse_quote_data(d, symbol, now) ==
    IF "Global Quote" \notin DOMAIN d THEN None
    ELSE IF ~d["Global Quote"].isdict THEN None
    ELSE LET quote == d["Global Quote"].items IN
         Some([symbol |-> symbol,
               name |-> symbol,
               price |-> Get(quote, "05. price", NA),
               change |-> Get(quote, "09. change", NA),
               change_percent |-> Get(quote, "10. change percent", NA),
               volume |-> Get(quote, "06. volume", NA),
               market_cap |-> NA,
               pe_ratio |-> NA,
               collection_date |-> strftime(now),
               source |-> <<"Alpha Vantage API">>])

\* teste-2.py _parse_overview_data
parse_overview_data(d, symbol, now) ==
    IF "Symbol" \notin DOMAIN d THEN None
    ELSE Some([symbol |-> symbol,
               name |-> Get(d, "Name", symbol),
               price |-> NA,
               change |-> NA,
               change_percent |-> NA,
               volume |-> NA,
               market_cap |-> Get(d, "MarketCapitalization", NA),
               pe_ratio |-> Get(d, "PERatio", NA),
               collection_date |-> strftime(now),
               source |-> <<"Alpha Vantage API">>])

\* teste-2.py get_company_overview
get_company_overview(r, symbol, now) ==
    IF ~TruthyDict(r) THEN None ELSE parse_overview_data(r[1], symbol, now)

\* variant: every available overview value replaces the quote's value
merge_override(quote, overview) ==
    [key \in DOMAIN quote |->
        IF key \in DOMAIN overview /\ overview[key] # NA
        THEN overview[key] ELSE quote[key]]

\* teste-2.py get_complete_stock_data, the loop over overview_data.items():
\* quote_data.get(key) is None for a key the quote lacks, so no key is added
merge(quote, overview) ==
    [key \in DOMAIN quote |->
        IF key \in DOMAIN overview /\ quote[key] = NA /\ overview[key] # NA
        THEN overview[key] ELSE quote[key]]

\* variant: the frame is never reported empty
empty_never(df) == FALSE

\* DataFrame(all_data).empty
empty(df) == Len(df) = 0

\* save_to_csv: the resolved file path
OutputDir == <<"data">>
Prefix(src) == IF src = "yahoo" THEN <<"stocks_data_">>
               ELSE <<"stocks_api_data_">>
save_path(src, filename, now) ==
    OutputDir \o <<"/">> \o
    (IF IsNone(filename) THEN Prefix(src) \o strftime(now) \o <<".csv">>
     ELSE filename[1])

\* ------------------------------------------------------------ the state
Event(ev, idx, fn, arg, res, dur) ==
    [ev |-> ev, idx |-> idx, fn |-> fn, arg |-> arg, res |-> res,
     at |-> clock, dur |-> dur]

\* how a request ended: the exception raised or the status code received
Result(resp) ==
    IF resp.exc \in RequestExceptions THEN resp.exc ELSE ToString(resp.status)

Delays(src) == IF src = "yahoo" THEN MinDelay..MaxDelay ELSE {ApiDelay}

InitRun(lists) ==
    /\ source \in Sources
    /\ symbols \in lists
    /\ i = 1
    /\ pc = IF symbols = << >> THEN "main" ELSE "fetch"
    /\ raw = None
    /\ data = None
    /\ overview_data = None
    /\ all_data = << >>
    /\ clock = 0
    /\ log = << >>
    /\ outcome = << >>
    /\ files = {}
    /\ printed = "none"

SymbolLists == UNION {[1..n -> Symbols] : n \in 0..MaxLen}

\* a run of main() over a list of symbols
Init == InitRun(SymbolLists)

\* a run over one symbol
InitOne == InitRun([1..1 -> Symbols])

\* ------------------------------------------------- markup source, per symbol
\* scrape_stock: html = self._fetch_page(symbol); if not html: return None
DoScrapeFetch(R) ==
    /\ source = "yahoo" /\ pc = "fetch"
    /\ \E resp \in R :
         LET r == fetch_page(resp) IN
         /\ log' = Append(log, Event("request", i, "PAGE", symbols[i], Result(resp), 0))
         /\ raw' = r.val
         /\ IF r.raised THEN pc' = "raised" /\ outcome' = outcome
            ELSE IF TruthyText(r.val) THEN pc' = "parse" /\ outcome' = outcome
            ELSE pc' = "collect" /\ outcome' = Append(outcome, "fetch_failed")
    /\ UNCHANGED <<source, symbols, i, data, overview_data, all_data, clock,
                   files, printed>>

\* scrape_stock: data = self._parse_data(html, symbol)
ScrapeParse ==
    /\ source = "yahoo" /\ pc = "parse"
    /\ data' = parse_data(raw[1], symbols[i], clock)
    /\ outcome' = Append(outcome, IF TruthyDict(data') THEN "ok"
                                  ELSE "parse_failed")
    /\ pc' = "collect"
    /\ UNCHANGED <<source, symbols, i, raw, overview_data, all_data, clock,
                   log, files, printed>>

\* ---------------------------------------------------- API source, per symbol
\* variant: a failed quote request is tried again
DoQuoteRequest_retry(R) ==
    /\ source = "api" /\ pc = "fetch"
    /\ \E resp \in R :
         LET r == make_request(resp) IN
         /\ log' = Append(log,
                          Event("request", i, "GLOBAL_QUOTE", symbols[i],
                                Result(resp), 0))
         /\ raw' = r.val
         /\ pc' = IF TruthyDict(r.val) THEN "parse" ELSE "fetch"
    /\ UNCHANGED <<source, symbols, i, data, overview_data, all_data, clock,
                   outcome, files, printed>>

\* get_stock_quote: data = self._make_request("GLOBAL_QUOTE", symbol)
DoQuoteRequest(R) ==
    /\ source = "api" /\ pc = "fetch"
    /\ \E resp \in R :
         LET r == make_request(resp) IN
         /\ log' = Append(log,
                          Event("request", i, "GLOBAL_QUOTE", symbols[i],
                                Result(resp), 0))
         /\ raw' = r.val
         /\ IF r.raised THEN pc' = "raised" /\ outcome' = outcome
            ELSE IF TruthyDict(r.val) THEN pc' = "parse" /\ outcome' = outcome
            ELSE pc' = "collect" /\ outcome' = Append(outcome, "fetch_failed")
    /\ UNCHANGED <<source, symbols, i, data, overview_data, all_data, clock,
                   files, printed>>

\* get_stock_quote: return self._parse_quote_data(data, symbol), then
\* get_complete_stock_data: if not quote_data: return None
QuoteParse ==
    /\ source = "api" /\ pc = "parse"
    /\ data' = parse_quote_data(raw[1], symbols[i], clock)
    /\ outcome' = Append(outcome, IF TruthyDict(data') THEN "ok"
                                  ELSE "parse_failed")
    /\ pc' = IF TruthyDict(data') THEN "overview" ELSE "collect"
    /\ UNCHANGED <<source, symbols, i, raw, overview_data, all_data, clock,
                   log, files, printed>>

\* get_complete_stock_data: overview_data = self.get_company_overview(symbol)
\* and the merge of its fields into quote_data (held in data)
DoOverview(R) ==
    /\ source = "api" /\ pc = "overview"
    /\ \E resp \in R :
         LET r == make_request(resp) IN
         /\ log' = Append(log, Event("request", i, "OVERVIEW", symbols[i],
                                     Result(resp), 0))
         /\ IF r.raised
            THEN pc' = "raised" /\ UNCHANGED <<data, overview_data>>
            ELSE /\ pc' = "collect"
                 /\ overview_data' =
                        get_company_overview(r.val, symbols[i], clock)
                 /\ data' = IF TruthyDict(overview_data')
                            THEN Some(merge(data[1], overview_data'[1]))
                            ELSE data
    /\ UNCHANGED <<source, symbols, i, raw, all_data, clock, outcome, files,
                   printed>>

\* ------------------------------------------------------------ the collector
\* variant: the new record is put in front of the list
Collect_prepend ==
    /\ pc = "collect"
    /\ all_data' = IF TruthyDict(data) THEN <<data[1]>> \o all_data
                   ELSE all_data
    /\ pc' = "sleep"
    /\ UNCHANGED <<source, symbols, i, raw, data, overview_data, clock, log,
                   outcome, files, printed>>

\* variant: a skipped symbol goes straight to the next one (continue)
Collect_continue ==
    /\ pc = "collect"
    /\ IF TruthyDict(data)
       THEN /\ all_data' = Append(all_data, data[1])
            /\ pc' = "sleep"
            /\ UNCHANGED <<i, raw, data, overview_data>>
       ELSE /\ all_data' = all_data
            /\ i' = i + 1
            /\ raw' = None /\ data' = None /\ overview_data' = None
            /\ pc' = IF i + 1 <= Len(symbols) THEN "fetch" ELSE "main"
    /\ UNCHANGED <<source, symbols, clock, log, outcome, files, printed>>

\* scrape_multiple_stocks / get_multiple_stocks_data: if data: append
Collect ==
    /\ pc = "collect"
    /\ all_data' = IF TruthyDict(data) THEN Append(all_data, data[1])
                   ELSE all_data
    /\ pc' = "sleep"
    /\ UNCHANGED <<source, symbols, i, raw, data, overview_data, clock, log,
                   outcome, files, printed>>

\* time.sleep(self._get_random_delay()) / time.sleep(12), then the next symbol
Sleep ==
    /\ pc = "sleep"
    /\ \E d \in Delays(source) :
         /\ log' = Append(log, Event("pause", i, "sleep", symbols[i], "slept", d))
         /\ clock' = clock + d * TicksPerSecond
    /\ i' = i + 1
    /\ raw' = None
    /\ data' = None
    /\ overview_data' = None
    /\ pc' = IF i + 1 <= Len(symbols) THEN "fetch" ELSE "main"
    /\ UNCHANGED <<source, symbols, all_data, outcome, files, printed>>

\* --------------------------------------------------------------- the writer
Write(path, df) == {f \in files : f[1] # path} \cup {<<path, df>>}

\* main: if not stocks_data.empty: ... else: print the no-data message
MainCheck ==
    /\ pc = "main"
    /\ IF ~empty(all_data) THEN pc' = "save" /\ printed' = printed
       ELSE pc' = "done" /\ printed' = "no data"
    /\ UNCHANGED <<source, symbols, i, raw, data, overview_data, all_data,
                   clock, log, outcome, files>>

\* main: scraper.save_to_csv(stocks_data) and the success message
Save ==
    /\ pc = "save"
    /\ LET filepath == save_path(source, None, clock) IN
       /\ files' = Write(filepath, all_data)
       /\ log' = Append(log, Event("save", 0, "auto", filepath, "written", 0))
    /\ printed' = "success"
    /\ pc' = "done"
    /\ UNCHANGED <<source, symbols, i, raw, data, overview_data, all_data,
                   clock, outcome>>

ScrapeFetch == DoScrapeFetch(YahooResponses)
QuoteRequest == DoQuoteRequest(QuoteResponses)
Overview == DoOverview(OverviewResponses)

Next ==
    \/ ScrapeFetch
    \/ ScrapeParse
    \/ QuoteRequest
    \/ QuoteParse
    \/ Overview
    \/ Collect
    \/ Sleep
    \/ MainCheck
    \/ Save

Spec == Init /\ [][Next]_vars

\* the interpreter keeps running the program until main returns
FairSpec == Spec /\ WF_vars(Next)

\* ------------------------------------------- one symbol, every input shape
ScrapeFetchAny == DoScrapeFetch(YahooResponsesAll)
QuoteRequestAny == DoQuoteRequest(QuoteResponsesAll)
OverviewAny == DoOverview(OverviewResponsesAll)

NextOne ==
    \/ ScrapeFetchAny
    \/ ScrapeParse
    \/ QuoteRequestAny
    \/ QuoteParse
    \/ OverviewAny
    \/ Collect
    \/ Sleep
    \/ MainCheck
    \/ Save

SpecOne == InitOne /\ [][NextOne]_vars

\* --------------------------------- save_to_csv called directly by a client
Frames == {<< >>, <<parse_quote_data("Global Quote" :> Dict(FullQuoteItems),
                                     <<"AAPL">>, 0)[1]>>}
FilenameArgs == {None, Some(<<"out.csv">>)}

InitWriter ==
    /\ source \in Sources
    /\ symbols = << >>
    /\ i = 1
    /\ pc = "client"
    /\ raw = None
    /\ data = None
    /\ overview_data = None
    /\ all_data \in Frames
    /\ clock = 0
    /\ log = << >>
    /\ outcome = << >>
    /\ files = {}
    /\ printed = "none"

\* time passes between two calls
Tick ==
    /\ pc = "client"
    /\ clock < MaxClock
    /\ clock' = clock + 1
    /\ UNCHANGED <<source, symbols, i, pc, raw, data, overview_data, all_data,
                   log, outcome, files, printed>>

\* save_to_csv(df, filename)
SaveToCsv ==
    /\ pc = "client"
    /\ Len(log) < MaxSaves
    /\ \E filename \in FilenameArgs :
         LET filepath == save_path(source, filename, clock) IN
         /\ files' = Write(filepath, all_data)
         /\ log' = Append(log, Event("save", 0,
                                     IF IsNone(filename) THEN "auto"
                                     ELSE "named", filepath, "written", 0))
    /\ UNCHANGED <<source, symbols, i, pc, raw, data, overview_data, all_data,
                   clock, outcome, printed>>

NextWriter == Tick \/ SaveToCsv

SpecWriter == InitWriter /\ [][NextWriter]_vars

\* ================================================================ properties
RequestsAt(k, fn) ==
    {p \in 1..Len(log) :
        log[p].ev = "request" /\ log[p].idx = k /\ log[p].fn = fn}
RequestsOf(k) == {p \in 1..Len(log) : log[p].ev = "request" /\ log[p].idx = k}
RequestsFor(s) == {p \in 1..Len(log) : log[p].ev = "request" /\ log[p].arg = s}
PausesBefore(p) == {q \in 1..(p - 1) : log[q].ev = "pause"}
Pauses == PausesBefore(Len(log) + 1)
Saves == {p \in 1..Len(log) : log[p].ev = "save"}
LoopOver == pc \in {"main", "save", "done"}
Distinct(list) ==
    \A m, n \in 1..Len(list) : m # n => list[m] # list[n]

\* the symbols whose collect step has run
Processed == IF pc = "sleep" THEN i ELSE i - 1

RECURSIVE Restrict(_)
Restrict(k) ==
    IF k = 0 THEN << >>
    ELSE IF outcome[k] = "ok" THEN Append(Restrict(k - 1), symbols[k])
    ELSE Restrict(k - 1)

\* C1: every record in the collector's list, and the record being built once
\* the parser (and the overview merge) has produced it, has exactly the ten
\* keys, whichever fields were missing.
C1_TenKeys ==
    /\ Cardinality(Keys) = 10
    /\ \A n \in 1..Len(all_data) : DOMAIN all_data[n] = Keys
    /\ ~IsNone(data) => DOMAIN data[1] = Keys

\* C1 witness: an API record with a missing quote field and merged overview
\* data is in the list.
C1_Witness ==
    \E n \in 1..Len(all_data) :
        /\ all_data[n].source = <<"Alpha Vantage API">>
        /\ all_data[n].change = NA
        /\ all_data[n].market_cap = Value

\* the fetched content lacks the expected top-level structure
LacksStructure ==
    /\ ~IsNone(raw)
    /\ IF source = "yahoo"
       THEN raw[1].kind = "html"
            /\ \A f \in ExtractedFields : IsNone(raw[1].elems[f])
       ELSE DOMAIN raw[1] # {} /\ "Global Quote" \notin DOMAIN raw[1]

\* C2 (as claimed): content without the expected top-level structure gives no
\* record from the parse step and no record in the collector's list.
C2_NoStructureNoRecord ==
    (pc \in {"collect", "sleep"} /\ LacksStructure) =>
        /\ IsNone(data)
        /\ Len(all_data) = Len(Restrict(i - 1))

\* C3: the result is the input list restricted to the symbols whose fetch and
\* parse succeeded, in input order, one record per entry, with that entry's
\* symbol.
C3_ResultIsRestriction ==
    /\ Len(all_data) = Len(Restrict(Processed))
    /\ \A n \in 1..Len(all_data) : all_data[n].symbol = Restrict(Processed)[n]

\* C3 witness: ["AAPL","BADSYM"] with BADSYM failing fetch ends with one
\* record, for AAPL.
C3_Witness ==
    /\ pc = "done"
    /\ symbols = <<(<<"AAPL">>), (<<"BADSYM">>)>>
    /\ outcome = <<"ok", "fetch_failed">>
    /\ Len(all_data) = 1
    /\ all_data[1].symbol = <<"AAPL">>

\* C4 (as claimed): after a run over distinct symbols exactly one request
\* was issued for each symbol.
C4_OneRequestPerSymbol ==
    (LoopOver /\ Distinct(symbols)) =>
        \A k \in 1..Len(symbols) :
            Cardinality(RequestsFor(symbols[k])) = 1

\* C4 (amended): no request is repeated; the markup source issues one page
\* request per symbol, the API source one GLOBAL_QUOTE request per symbol and
\* one OVERVIEW request exactly for the symbols whose quote succeeded.
C4_NoRepeatedRequest ==
    /\ \A k \in 1..Len(symbols) :
         \A fn \in {"PAGE", "GLOBAL_QUOTE", "OVERVIEW"} :
            Cardinality(RequestsAt(k, fn)) <= 1
    /\ LoopOver =>
         \A k \in 1..Len(symbols) :
            IF source = "yahoo"
            THEN Cardinality(RequestsOf(k)) = 1
                 /\ Cardinality(RequestsAt(k, "PAGE")) = 1
            ELSE /\ Cardinality(RequestsAt(k, "GLOBAL_QUOTE")) = 1
                 /\ Cardinality(RequestsAt(k, "OVERVIEW")) =
                        (IF outcome[k] = "ok" THEN 1 ELSE 0)
                 /\ Cardinality(RequestsAt(k, "PAGE")) = 0

\* C4 witness: an API run over two distinct symbols, one quote failing and
\* one succeeding, has ended with three requests.
C4_Witness ==
    /\ pc = "done" /\ source = "api"
    /\ Len(symbols) = 2 /\ Distinct(symbols)
    /\ outcome = <<"fetch_failed", "ok">>
    /\ Cardinality(RequestsOf(1)) = 1
    /\ Cardinality(RequestsOf(2)) = 2

\* C5: one pause follows each symbol, skipped or not; the k-th pause is the
\* one of symbol k; a request for symbol k is issued only after the k-1
\* earlier pauses have ended; a finished run over n symbols made n pauses.
C5_PausePerSymbol ==
    /\ Cardinality(Pauses) = i - 1
    /\ \A p \in Pauses : log[p].idx = Cardinality(PausesBefore(p)) + 1
    /\ \A p \in 1..Len(log) :
         log[p].ev = "request" =>
            /\ Cardinality(PausesBefore(p)) = log[p].idx - 1
            /\ \A q \in PausesBefore(p) :
                 log[q].at + log[q].dur * TicksPerSecond <= log[p].at
    /\ LoopOver => Cardinality(Pauses) = Len(symbols)

\* C5 witness: a finished run of two symbols, the first one skipped, with two
\* pauses.
C5_Witness ==
    /\ pc = "done"
    /\ Len(symbols) = 2
    /\ outcome = <<"fetch_failed", "ok">>
    /\ Cardinality(Pauses) = 2

FailureResults == RequestExceptions \cup {ToString(StatusNotFound)}
LastEvent == log[Len(log)]

\* a request that timed out, failed in transport or got a non-200 status has
\* returned: its caller holds None and goes to the collect step unparsed
FailedFetchIsNone ==
    (Len(log) > 0 /\ LastEvent.ev = "request"
       /\ LastEvent.res \in FailureResults) =>
        /\ pc \in {"collect", "sleep"}
        /\ IF LastEvent.fn = "OVERVIEW" THEN IsNone(overview_data)
           ELSE IsNone(raw) /\ IsNone(data)

\* C6: a failed fetch raises nothing and is reported as None; the collector
\* skips the symbol and goes on, and every run ends having issued a request
\* for every symbol of the list.
C6_FailedFetchSkipped ==
    /\ [](pc # "raised" /\ FailedFetchIsNone)
    /\ <>(pc = "done" /\ \A k \in 1..Len(symbols) : RequestsOf(k) # {})

\* C6 witness: a run of two symbols whose fetches timed out and got a 404 has
\* ended, with both symbols attempted and nothing collected.
C6_Witness ==
    /\ pc = "done"
    /\ Len(symbols) = 2
    /\ Len(log) = 4
    /\ log[1].res = "Timeout" /\ log[3].res = ToString(StatusNotFound)
    /\ all_data = << >>

\* the parser has just produced the record held in data
ParsedNow ==
    \/ source = "yahoo" /\ pc = "collect" /\ ~IsNone(data)
    \/ source = "api" /\ pc = "overview"

QuoteKeyOf(f) ==
    IF f = "price" THEN "05. price"
    ELSE IF f = "change" THEN "09. change"
    ELSE IF f = "change_percent" THEN "10. change percent"
    ELSE IF f = "volume" THEN "06. volume"
    ELSE "none"

\* what the source holds for field f: None when it cannot be located
Found(f) ==
    IF source = "yahoo" THEN
        IF IsNone(raw[1].elems[f]) THEN None
        ELSE IF f = "name"
             THEN Some(Strip(BeforeParen(raw[1].elems[f][1])))
             ELSE raw[1].elems[f]
    ELSE LET quote == raw[1]["Global Quote"].items IN
         IF QuoteKeyOf(f) \in DOMAIN quote THEN Some(quote[QuoteKeyOf(f)])
         ELSE None

\* C7 (as claimed): every extracted field, name included, is "N/A" when it
\* cannot be located and the value found when it can.
C7_MissingIsSentinel ==
    ParsedNow =>
        \A f \in ExtractedFields :
            data[1][f] = IF IsNone(Found(f)) THEN NA ELSE Found(f)[1]

\* C7 (amended): price, change, change_percent, volume, market_cap and
\* pe_ratio are "N/A" when not located and the value found otherwise; name is
\* the symbol when not located and the text found otherwise; each field
\* depends on its own location only.
C7_FieldsDegradeIndependently ==
    ParsedNow =>
        \A f \in ExtractedFields :
            data[1][f] = IF ~IsNone(Found(f)) THEN Found(f)[1]
                         ELSE IF f = "name" THEN symbols[i] ELSE NA

\* C7 witness: a page with the price but neither heading nor P/E ratio has
\* been parsed.
C7_Witness ==
    /\ ParsedNow /\ source = "yahoo"
    /\ IsNone(Found("name")) /\ IsNone(Found("pe_ratio"))
    /\ IsNone(Found("change")) /\ Found("price") = Some(Value)
    /\ Found("volume") = Some(Value)
    /\ data[1].name = symbols[i]
    /\ data[1].price = Value
    /\ data[1].pe_ratio = NA

\* C8 (as claimed): two calls without a filename at two different times
\* return two different paths.
C8_DifferentTimesDifferentPaths ==
    \A p, q \in Saves :
        (log[p].fn = "auto" /\ log[q].fn = "auto" /\ log[p].at # log[q].at)
            => log[p].arg # log[q].arg

\* C9: main calls the writer at most once, as its last step after every
\* symbol was processed and only with a non-empty result; a run that ends
\* with an empty result has written nothing and printed the no-data message.
C9_WriterOnceAtEnd ==
    /\ Cardinality(Saves) <= 1
    /\ \A p \in Saves :
         /\ p = Len(log) /\ pc = "done"
         /\ Cardinality(Pauses) = Len(symbols)
         /\ \A k \in 1..Len(symbols) : RequestsOf(k) # {}
         /\ ~empty(all_data)
    /\ pc = "done" =>
         IF all_data = << >>
         THEN Saves = {} /\ files = {} /\ printed = "no data"
         ELSE /\ Cardinality(Saves) = 1
              /\ files = {<<log[Len(log)].arg, all_data>>}
              /\ printed = "success"

\* C9 witness: a run of two symbols, one of them skipped, has ended with one
\* file written.
C9_Witness ==
    /\ pc = "done"
    /\ Len(symbols) = 2 /\ Len(all_data) = 1
    /\ Cardinality(Saves) = 1 /\ Cardinality(files) = 1

\* C10: the merge step changes exactly the keys whose quote value is "N/A"
\* and whose overview value is not, to the overview value; with no overview
\* record the quote record is returned unchanged; a failed quote gives no
\* record and no OVERVIEW request.
C10_MergeFieldwise ==
    /\ [][(pc = "overview" /\ pc' = "collect") =>
            /\ ~IsNone(data')
            /\ DOMAIN data'[1] = DOMAIN data[1]
            /\ \A k \in Keys :
                 data'[1][k] =
                    IF ~IsNone(overview_data') /\ data[1][k] = NA
                       /\ overview_data'[1][k] # NA
                    THEN overview_data'[1][k] ELSE data[1][k]]_vars
    /\ [](source = "api" =>
            \A k \in 1..Len(outcome) :
                outcome[k] # "ok" =>
                    /\ RequestsAt(k, "OVERVIEW") = {}
                    /\ (k = i /\ pc \in {"collect", "sleep"}) => IsNone(data))

\* C10 witness: an overview with a name and a market value but no P/E ratio
\* was merged into a quote without a price.
C10_Witness ==
    /\ source = "api" /\ pc = "collect"
    /\ ~IsNone(overview_data) /\ ~IsNone(data)
    /\ overview_data[1].name = CompanyName
    /\ overview_data[1].pe_ratio = NA
    /\ data[1].name = symbols[i]
    /\ data[1].market_cap = Value
    /\ data[1].pe_ratio = NA
    /\ data[1].price = NA
    /\ data[1].volume = Value

Requests == {p \in 1..Len(log) : log[p].ev = "request"}

\* two requests of the log with no other request between them
Consecutive(p, q) ==
    /\ p \in Requests /\ q \in Requests /\ p < q
    /\ \A r \in Requests : ~(p < r /\ r < q)

\* C11 (as claimed): in an API run, between any two consecutive outbound
\* requests there is a pause of 12 seconds, so at least 12 seconds separate
\* any two requests (5 calls per minute).
C11_PauseBetweenRequests ==
    source = "api" =>
        \A p, q \in Requests :
            Consecutive(p, q) =>
                /\ \E r \in (p + 1)..(q - 1) :
                     log[r].ev = "pause" /\ log[r].dur = ApiDelay
                /\ log[q].at - log[p].at >= ApiDelay * TicksPerSecond
====
